---- MODULE Spec2Model ----
(***************************************************************************)
(* Model of fgpython/fgsocket.py: class FGSocketConnection, the UDP bridge *)
(* between a control process and JSBSim/FlightGear.                        *)
(*                                                                         *)
(* Floats are modelled by the whole numbers they hold (every value that    *)
(* occurs is a small whole number, exactly representable).  Strings that   *)
(* arrive on the inbound socket are sequences of one-character strings;    *)
(* the outbound message is the sequence of the pieces the two format       *)
(* expressions of send_command_udp append, in order.  List indices of the  *)
(* program are 0-based, sequences of the model 1-based.                    *)
(***************************************************************************)
EXTENDS Integers, Sequences, FiniteSets, Bags, TLC

\* ---------------------------------------------------------------- bounds
MaxThreads == 2     \* receive threads started on one endpoint
MaxUpdates == 3     \* successful update_* calls made on one endpoint

\* ---------------------------------------------------------------- inputs
\* names found in the protocol description
NameSet == {"heading", "speed"}
\* names the caller may pass (one of them is never registered)
CallNames == NameSet \cup {"unknown_field"}
\* values handed to update_setpoint / update_scale / update_bias
UpdValues == {2, 3}
\* index lists handed to get_state
IdxLists == {<<1>>, <<0, 1>>, <<-1>>}
\* inbound datagrams (after bytes.decode), as sequences of characters
Packets ==
  { <<>>,
    <<"\n">>,
    <<"1", "\t", "2", "\n">>,
    <<"3", "\t", "\t", "4">>,
    <<"7", "\n">>,
    <<"1", "\t", "x", "\n">> }

\* the ordered chunk names a protocol description may hold: no chunk, one,
\* two different names, the same name twice
FieldLists ==
  { <<>>, <<"heading">>, <<"heading", "speed">>, <<"speed", "speed">> }

Range(s) == {s[i] : i \in DOMAIN s}

\* ------------------------------------------------------------ python core
\* list[i] of python: negative indices count from the end
InRange(list, i) == IF i >= 0 THEN i < Len(list) ELSE -i <= Len(list)
PyIndex(list, i) == IF i >= 0 THEN list[i + 1] ELSE list[Len(list) + i + 1]

Digits == {"0", "1", "2", "3", "4", "5", "6", "7", "8", "9"}
Whitespace == {" ", "\n", "\t", "\r"}

DigitVal(c) ==
  CASE c = "0" -> 0 [] c = "1" -> 1 [] c = "2" -> 2 [] c = "3" -> 3
    [] c = "4" -> 4 [] c = "5" -> 5 [] c = "6" -> 6 [] c = "7" -> 7
    [] c = "8" -> 8 [] c = "9" -> 9

\* str.strip(): drop leading and trailing whitespace (float() does this)
RECURSIVE Strip(_)
Strip(s) ==
  IF s = <<>> THEN s
  ELSE IF Head(s) \in Whitespace THEN Strip(Tail(s))
  ELSE IF s[Len(s)] \in Whitespace THEN Strip(SubSeq(s, 1, Len(s) - 1))
  ELSE s

\* float(tok) succeeds: over the alphabet of Packets, a non-empty digit run
IsFloat(tok) ==
  LET s == Strip(tok)
  IN  s # <<>> /\ \A i \in DOMAIN s : s[i] \in Digits

RECURSIVE DecimalValue(_)
DecimalValue(s) ==
  IF s = <<>> THEN 0
  ELSE 10 * DecimalValue(SubSeq(s, 1, Len(s) - 1)) + DigitVal(s[Len(s)])

\* float(tok), where IsFloat(tok)
Float(tok) == DecimalValue(Strip(tok))

\* re.split(r'\t+', s)
RECURSIVE re_split(_)
re_split(s) ==
  IF \A i \in DOMAIN s : s[i] # "\t" THEN <<s>>
  ELSE LET i == CHOOSE k \in DOMAIN s :
                  s[k] = "\t" /\ \A m \in 1..(k - 1) : s[m] # "\t"
           j == CHOOSE k \in (i + 1)..(Len(s) + 1) :
                  /\ k = Len(s) + 1 \/ s[k] # "\t"
                  /\ \A m \in (i + 1)..(k - 1) : s[m] = "\t"
       IN  <<SubSeq(s, 1, i - 1)>> \o re_split(SubSeq(s, j, Len(s)))

\* what one pass of the loop body (lines 134-138) does with a datagram:
\* "break" on the empty string, "ValueError" when float() rejects a token,
\* "publish" otherwise
LoopOutcome(pkt) ==
  IF pkt = <<>> THEN "break"
  ELSE IF \E i \in DOMAIN re_split(pkt) : ~IsFloat(re_split(pkt)[i])
       THEN "ValueError"
  ELSE "publish"

\* [float(i) for i in re.split(r'\t+', data)], where LoopOutcome is "publish"
Decoded(pkt) == [i \in DOMAIN re_split(pkt) |-> Float(re_split(pkt)[i])]

\* '%f' % cmd and str(cmd) for a float holding a whole number
FmtF(cmd) == ToString(cmd) \o ".000000"
Str(cmd) == ToString(cmd) \o ".0"

\* ------------------------------------------------------------------ state
VARIABLES
  fields,      \* the ordered chunk names of the input protocol (constructor input)
  id,          \* self.id: name -> index
  sp,          \* self.sp
  scale,       \* self.scale
  bias,        \* self.bias
  data,        \* self.data, the published snapshot
  update,      \* self.update, the running flag
  connected,   \* self.connected
  threads,     \* the started receive_state threads: the bag of their positions
  fg,          \* the foreground caller: idle, or inside get_state
  ret,         \* outcome of the most recent foreground call
  last_sp,     \* history: latest value given to update_setpoint, per name
  last_scale,  \* history: latest value given to update_scale, per name
  last_bias,   \* history: latest value given to update_bias, per name
  nupd         \* history: successful update_* calls so far

vars == <<fields, id, sp, scale, bias, data, update, connected, threads, fg,
          ret, last_sp, last_scale, last_bias, nupd>>

registry == <<fields, id>>
vectors == <<sp, scale, bias>>
history == <<last_sp, last_scale, last_bias, nupd>>
receiver == <<data, connected, threads>>

Idle == [pc |-> "idle", idx |-> <<>>, acc |-> <<>>]
Outcome(op, arg, err, val) == [op |-> op, arg |-> arg, err |-> err, val |-> val]
\* no call has returned yet, or the call in progress has not returned
Pending == Outcome("none", "none", "none", "none")

\* ------------------------------------------------------------ construction
\* self.id after the first k chunks have been read (lines 76-84)
RECURSIVE IdAfter(_, _)
IdAfter(names, k) ==
  IF k = 0 THEN <<>>
  ELSE LET prev == IdAfter(names, k - 1)
       IN  [n \in DOMAIN prev \cup {names[k]} |->
              IF n = names[k] THEN k - 1 ELSE prev[n]]

Init ==
  /\ fields \in FieldLists
  /\ id = IdAfter(fields, Len(fields))
  /\ sp = [i \in 1..Len(fields) |-> 0]
  /\ scale = [i \in 1..Len(fields) |-> 1]
  /\ bias = [i \in 1..Len(fields) |-> 0]
  /\ data = <<>>
  /\ update = FALSE
  /\ connected = FALSE
  /\ threads = EmptyBag
  /\ fg = Idle
  /\ ret = Pending
  /\ last_sp = [n \in DOMAIN id |-> 0]
  /\ last_scale = [n \in DOMAIN id |-> 1]
  /\ last_bias = [n \in DOMAIN id |-> 0]
  /\ nupd = 0

\* a foreground call may begin: the caller is not inside another call
CanCall == fg.pc = "idle"

\* ----------------------------------------------------- foreground: vectors
\* variant: the index found in self.id is returned and read as the answer
\* (index 0 reads as false)
HasVariable_truthy(prop) == prop \in DOMAIN id /\ id[prop] # 0

\* prop in self.id.keys()
HasVariable(prop) == prop \in DOMAIN id

has_variable(prop) ==
  /\ CanCall
  /\ ret' = Outcome("has_variable", prop, "none", HasVariable(prop))
  /\ UNCHANGED <<registry, vectors, history, receiver, update, fg>>

\* a name-keyed call whose self.id[prop] raises KeyError
KeyErrorCall(op, prop) ==
  /\ prop \notin DOMAIN id
  /\ ret' = Outcome(op, prop, "KeyError", "none")
  /\ UNCHANGED <<vectors, history>>

\* variant: update_bias gives the value to every slot
update_bias_every_slot(prop, value) ==
  /\ CanCall
  /\ \/ KeyErrorCall("update_bias", prop)
     \/ /\ prop \in DOMAIN id
        /\ nupd < MaxUpdates
        /\ bias' = [k \in DOMAIN bias |-> value]
        /\ last_bias' = [last_bias EXCEPT ![prop] = value]
        /\ nupd' = nupd + 1
        /\ ret' = Outcome("update_bias", prop, "none", "none")
        /\ UNCHANGED <<sp, scale, last_sp, last_scale>>
  /\ UNCHANGED <<registry, receiver, update, fg>>

update_bias(prop, value) ==
  /\ CanCall
  /\ \/ KeyErrorCall("update_bias", prop)
     \/ /\ prop \in DOMAIN id
        /\ nupd < MaxUpdates
        /\ bias' = [bias EXCEPT ![id[prop] + 1] = value]
        /\ last_bias' = [last_bias EXCEPT ![prop] = value]
        /\ nupd' = nupd + 1
        /\ ret' = Outcome("update_bias", prop, "none", "none")
        /\ UNCHANGED <<sp, scale, last_sp, last_scale>>
  /\ UNCHANGED <<registry, receiver, update, fg>>

\* variant: update_scale stores into self.sp
update_scale_into_sp(prop, value) ==
  /\ CanCall
  /\ \/ KeyErrorCall("update_scale", prop)
     \/ /\ prop \in DOMAIN id
        /\ nupd < MaxUpdates
        /\ sp' = [sp EXCEPT ![id[prop] + 1] = value]
        /\ last_scale' = [last_scale EXCEPT ![prop] = value]
        /\ nupd' = nupd + 1
        /\ ret' = Outcome("update_scale", prop, "none", "none")
        /\ UNCHANGED <<scale, bias, last_sp, last_bias>>
  /\ UNCHANGED <<registry, receiver, update, fg>>

update_scale(prop, value) ==
  /\ CanCall
  /\ \/ KeyErrorCall("update_scale", prop)
     \/ /\ prop \in DOMAIN id
        /\ nupd < MaxUpdates
        /\ scale' = [scale EXCEPT ![id[prop] + 1] = value]
        /\ last_scale' = [last_scale EXCEPT ![prop] = value]
        /\ nupd' = nupd + 1
        /\ ret' = Outcome("update_scale", prop, "none", "none")
        /\ UNCHANGED <<sp, bias, last_sp, last_bias>>
  /\ UNCHANGED <<registry, receiver, update, fg>>

\* variant: the index is looked up with self.id.get(prop, 0), so an unknown
\* name falls back to slot 0
update_setpoint_default_slot(prop, value) ==
  /\ CanCall
  /\ LET i == IF prop \in DOMAIN id THEN id[prop] ELSE 0
     IN  IF i < Len(sp)
           THEN /\ nupd < MaxUpdates
                /\ sp' = [sp EXCEPT ![i + 1] = value]
                /\ last_sp' = [n \in DOMAIN id |->
                                 IF n = prop THEN value ELSE last_sp[n]]
                /\ nupd' = nupd + 1
                /\ ret' = Outcome("update_setpoint", prop, "none", "none")
                /\ UNCHANGED <<scale, bias, last_scale, last_bias>>
           ELSE /\ ret' = Outcome("update_setpoint", prop, "IndexError", "none")
                /\ UNCHANGED <<vectors, history>>
  /\ UNCHANGED <<registry, receiver, update, fg>>

update_setpoint(prop, value) ==
  /\ CanCall
  /\ \/ KeyErrorCall("update_setpoint", prop)
     \/ /\ prop \in DOMAIN id
        /\ nupd < MaxUpdates
        /\ sp' = [sp EXCEPT ![id[prop] + 1] = value]
        /\ last_sp' = [last_sp EXCEPT ![prop] = value]
        /\ nupd' = nupd + 1
        /\ ret' = Outcome("update_setpoint", prop, "none", "none")
        /\ UNCHANGED <<scale, bias, last_scale, last_bias>>
  /\ UNCHANGED <<registry, receiver, update, fg>>

get_setpoint(prop) ==
  /\ CanCall
  /\ \/ KeyErrorCall("get_setpoint", prop)
     \/ /\ prop \in DOMAIN id
        /\ ret' = Outcome("get_setpoint", prop, "none", sp[id[prop] + 1])
        /\ UNCHANGED <<vectors, history>>
  /\ UNCHANGED <<registry, receiver, update, fg>>

\* ------------------------------------------------------ foreground: sending
\* variant: the bias is added after scaling
CommandValue_bias_last(i) == scale[i + 1] * sp[i + 1] + bias[i + 1]

\* scale[i]*(sp[i] + bias[i]), i a 0-based index
CommandValue(i) == scale[i + 1] * (sp[i + 1] + bias[i + 1])

\* the list built at lines 146-147
Command == [k \in 1..Len(sp) |-> CommandValue(k - 1)]

\* message after the for loop of lines 116-117 has run over the first n values
RECURSIVE MessageHead(_, _)
MessageHead(command, n) ==
  IF n = 0 THEN <<>>
  ELSE MessageHead(command, n - 1) \o <<FmtF(command[n]), ", ">>

\* message handed to sendto (lines 115-118), for a non-empty command
Message(command) ==
  MessageHead(command, Len(command) - 1) \o <<Str(command[Len(command)]), "\n">>

send_cmd ==
  /\ CanCall
  /\ IF Command = <<>>
       THEN ret' = Outcome("send_cmd", "none", "IndexError", "none")
       ELSE ret' = Outcome("send_cmd", "none", "none", Message(Command))
  /\ UNCHANGED <<registry, vectors, history, receiver, update, fg>>

\* ---------------------------------------------------- foreground: get_state
\* get_state(idx) is entered: the comprehension of line 142 has read nothing
get_state_call(idx) ==
  /\ CanCall
  /\ fg' = [pc |-> "get_state", idx |-> idx, acc |-> <<>>]
  /\ ret' = Pending
  /\ UNCHANGED <<registry, vectors, history, receiver, update>>

\* variant: an index outside the snapshot is skipped and the call returns the
\* values read before it
get_state_read_skipping ==
  /\ fg.pc = "get_state"
  /\ Len(fg.acc) < Len(fg.idx)
  /\ LET i == fg.idx[Len(fg.acc) + 1]
     IN  IF InRange(data, i)
           THEN /\ fg' = [fg EXCEPT !.acc = Append(fg.acc, PyIndex(data, i))]
                /\ UNCHANGED ret
           ELSE /\ fg' = Idle
                /\ ret' = Outcome("get_state", fg.idx, "none", fg.acc)
  /\ UNCHANGED <<registry, vectors, history, receiver, update>>

\* one iteration of the comprehension: self.data is loaded and subscripted for
\* the next index; other threads run between two iterations
get_state_read ==
  /\ fg.pc = "get_state"
  /\ Len(fg.acc) < Len(fg.idx)
  /\ LET i == fg.idx[Len(fg.acc) + 1]
     IN  IF InRange(data, i)
           THEN /\ fg' = [fg EXCEPT !.acc = Append(fg.acc, PyIndex(data, i))]
                /\ UNCHANGED ret
           ELSE /\ fg' = Idle
                /\ ret' = Outcome("get_state", fg.idx, "IndexError", "none")
  /\ UNCHANGED <<registry, vectors, history, receiver, update>>

\* the comprehension is exhausted: the list is returned
get_state_return ==
  /\ fg.pc = "get_state"
  /\ Len(fg.acc) = Len(fg.idx)
  /\ fg' = Idle
  /\ ret' = Outcome("get_state", fg.idx, "none", fg.acc)
  /\ UNCHANGED <<registry, vectors, history, receiver, update>>

\* --------------------------------------------------------- receive threads
\* The threads are anonymous (the identifier start_new_thread returns is
\* dropped), so the state holds how many threads are at each position:
\*   l128          about to test self.connected
\*   l129          blocked in the initial recvfrom
\*   l132          about to test self.update
\*   l133          blocked in the recvfrom of the loop
\*   done          returned from receive_state
\*   ValueError    ended by the uncaught ValueError of float()
At(pc) == BagIn(pc, threads)
Move(from, to) == threads' = (threads (-) SetToBag({from})) (+) SetToBag({to})

\* number of threads still inside receive_state
ActiveLoops ==
  LET n(pc) == IF At(pc) THEN CopiesIn(pc, threads) ELSE 0
  IN  n("l128") + n("l129") + n("l132") + n("l133")

\* variant: starting the thread marks the endpoint connected
start_receive_state_connecting ==
  /\ CanCall
  /\ BagCardinality(threads) < MaxThreads
  /\ update' = TRUE
  /\ connected' = TRUE
  /\ threads' = threads (+) SetToBag({"l128"})
  /\ ret' = Outcome("start_receive_state", "none", "none", "none")
  /\ UNCHANGED <<registry, vectors, history, data, fg>>

\* lines 123-124: set the running flag, start one more receive_state thread
start_receive_state ==
  /\ CanCall
  /\ BagCardinality(threads) < MaxThreads
  /\ update' = TRUE
  /\ threads' = threads (+) SetToBag({"l128"})
  /\ ret' = Outcome("start_receive_state", "none", "none", "none")
  /\ UNCHANGED <<registry, vectors, history, data, connected, fg>>

\* line 128: if not self.connected
check_connected ==
  /\ At("l128")
  /\ Move("l128", IF ~connected THEN "l129" ELSE "l132")
  /\ UNCHANGED <<registry, vectors, history, data, connected, update, fg, ret>>

\* variant: the initial recvfrom returns and self.connected is left as it is
recv_initial_unmarked(pkt) ==
  /\ At("l129")
  /\ Move("l129", "l132")
  /\ UNCHANGED <<registry, vectors, history, data, connected, update, fg, ret>>

\* variant: the initial datagram is decoded and published as well
recv_initial_publishing(pkt) ==
  /\ At("l129")
  /\ connected' = TRUE
  /\ Move("l129", "l132")
  /\ data' = IF LoopOutcome(pkt) = "publish" THEN Decoded(pkt) ELSE data
  /\ UNCHANGED <<registry, vectors, history, update, fg, ret>>

\* lines 129-130: the initial recvfrom returns and self.connected is set; the
\* datagram is bound to the local name data, which line 133 binds again
\* before any line reads it
recv_initial(pkt) ==
  /\ At("l129")
  /\ connected' = TRUE
  /\ Move("l129", "l132")
  /\ UNCHANGED <<registry, vectors, history, data, update, fg, ret>>

\* variant: the loop runs on whatever self.update holds
while_update_unguarded ==
  /\ At("l132")
  /\ Move("l132", "l133")
  /\ UNCHANGED <<registry, vectors, history, data, connected, update, fg, ret>>

\* line 132: while self.update == True
while_update ==
  /\ At("l132")
  /\ Move("l132", IF update = TRUE THEN "l133" ELSE "done")
  /\ UNCHANGED <<registry, vectors, history, data, connected, update, fg, ret>>

\* the floats of the tokens that precede the first token float() rejects
RECURSIVE DecodedPrefix(_)
DecodedPrefix(toks) ==
  IF toks = <<>> \/ ~IsFloat(Head(toks)) THEN <<>>
  ELSE <<Float(Head(toks))>> \o DecodedPrefix(Tail(toks))

\* variant: the values are stored into self.data one by one as they are
\* parsed, and a thread that ends by ValueError marks the endpoint
\* disconnected
recv_streaming_piecewise(pkt) ==
  /\ At("l133")
  /\ CASE LoopOutcome(pkt) = "break" ->
            Move("l133", "done") /\ UNCHANGED <<data, connected>>
       [] LoopOutcome(pkt) = "ValueError" ->
            /\ Move("l133", "ValueError")
            /\ data' = DecodedPrefix(re_split(pkt))
            /\ connected' = FALSE
       [] LoopOutcome(pkt) = "publish" ->
            Move("l133", "l132") /\ data' = Decoded(pkt) /\ UNCHANGED connected
  /\ UNCHANGED <<registry, vectors, history, update, fg, ret>>

\* variant: a decoded vector is stored only while no snapshot is held
recv_streaming_stale(pkt) ==
  /\ At("l133")
  /\ CASE LoopOutcome(pkt) = "break" ->
            Move("l133", "done") /\ UNCHANGED data
       [] LoopOutcome(pkt) = "ValueError" ->
            Move("l133", "ValueError") /\ UNCHANGED data
       [] LoopOutcome(pkt) = "publish" ->
            /\ Move("l133", "l132")
            /\ data' = IF data = <<>> THEN Decoded(pkt) ELSE data
  /\ UNCHANGED <<registry, vectors, history, connected, update, fg, ret>>

\* lines 133-138: recvfrom returns and the loop body handles the datagram; the
\* body touches shared state only in the one store to self.data
recv_streaming(pkt) ==
  /\ At("l133")
  /\ CASE LoopOutcome(pkt) = "break" ->
            Move("l133", "done") /\ UNCHANGED data
       [] LoopOutcome(pkt) = "ValueError" ->
            Move("l133", "ValueError") /\ UNCHANGED data
       [] LoopOutcome(pkt) = "publish" ->
            Move("l133", "l132") /\ data' = Decoded(pkt)
  /\ UNCHANGED <<registry, vectors, history, connected, update, fg, ret>>

\* ------------------------------------------------------------ specification
\* the calls that need no receive thread
ParamCalls ==
  \/ \E prop \in CallNames : has_variable(prop)
  \/ \E prop \in CallNames, value \in UpdValues : update_bias(prop, value)
  \/ \E prop \in CallNames, value \in UpdValues : update_scale(prop, value)
  \/ \E prop \in CallNames, value \in UpdValues : update_setpoint(prop, value)
  \/ \E prop \in CallNames : get_setpoint(prop)
  \/ send_cmd

GetState ==
  \/ \E idx \in IdxLists : get_state_call(idx)
  \/ get_state_read
  \/ get_state_return

\* the steps of the receive_state threads; recvfrom returns any datagram
Background ==
  \/ check_connected
  \/ \E pkt \in Packets : recv_initial(pkt)
  \/ while_update
  \/ \E pkt \in Packets : recv_streaming(pkt)

\* the endpoint with every call and every thread.  Its parameter side and its
\* receive side share no attribute, so the state space is their product; the
\* two specifications below each explore one side in full
Next == ParamCalls \/ GetState \/ start_receive_state \/ Background

Spec == Init /\ [][Next]_vars

\* the endpoint of a caller that sets parameters, sends commands and starts the
\* receive thread once, and never reads the snapshot
NextParams ==
  \/ ParamCalls
  \/ (threads = EmptyBag /\ start_receive_state)
  \/ Background

SpecParams == Init /\ [][NextParams]_vars

\* the endpoint of a caller that starts receive threads and reads the snapshot,
\* and leaves the parameters at their defaults
NextReceive == GetState \/ start_receive_state \/ Background

SpecReceive == Init /\ [][NextReceive]_vars

\* the caller stops the endpoint: the running flag self.update is cleared.
\* No method of the class does this; the step is the caller's assignment
clear_update ==
  /\ CanCall
  /\ update = TRUE
  /\ update' = FALSE
  /\ UNCHANGED <<registry, vectors, history, data, connected, threads, fg, ret>>

\* the endpoint of a caller that starts receive threads and stops them
NextStop == start_receive_state \/ clear_update \/ Background

SpecStop == Init /\ [][NextStop]_vars

\* the endpoint of a caller that makes every call of the class, updates a
\* parameter once at most and starts the receive thread once
NextFrame ==
  \/ \E prop \in CallNames : has_variable(prop)
  \/ nupd = 0 /\ \E prop \in CallNames, value \in UpdValues : update_bias(prop, value)
  \/ nupd = 0 /\ \E prop \in CallNames, value \in UpdValues : update_scale(prop, value)
  \/ nupd = 0 /\ \E prop \in CallNames, value \in UpdValues : update_setpoint(prop, value)
  \/ \E prop \in CallNames : get_setpoint(prop)
  \/ send_cmd
  \/ GetState
  \/ (threads = EmptyBag /\ start_receive_state)
  \/ Background

SpecFrame == Init /\ [][NextFrame]_vars

\* ----------------------------------------------------------------- claims
MaxOf(S) == CHOOSE x \in S : \A y \in S : y <= x
\* the whole numbers a command value can be
WireRange == 0..(MaxOf(UpdValues) * (MaxOf(UpdValues) + MaxOf(UpdValues)))
\* the numbers the receiving simulator can read a sent field as
WireValues(text) == {v \in WireRange : text = FmtF(v) \/ text = Str(v)}
\* the field at wire position i (0-based) of a sent message
WireField(message, i) == message[2 * i + 1]

\* C1: the message send_cmd sends carries, at the wire position id[n] of every
\* registered name n, the value scale * (setpoint + bias) of the latest values
\* given for n to update_scale, update_setpoint and update_bias (defaults 1, 0,
\* 0), whatever the order of the updates was.
C1_SendCmdLatest ==
  (ret.op = "send_cmd" /\ ret.err = "none") =>
    \A n \in DOMAIN id :
      WireValues(WireField(ret.val, id[n])) =
        {last_scale[n] * (last_sp[n] + last_bias[n])}

\* C1 witness: a command was sent after all three parameters of the field at
\* wire position 0 of a two-field registry had been updated
C1_Witness ==
  /\ ret.op = "send_cmd" /\ ret.err = "none"
  /\ Len(sp) = 2
  /\ \E n \in DOMAIN id :
       /\ id[n] = 0
       /\ last_sp[n] # 0 /\ last_scale[n] # 1 /\ last_bias[n] # 0

\* C2: get_setpoint(n) on a registered name returns the value of the most
\* recent update_setpoint(n, v), or 0 when there was none, whatever calls and
\* receive-thread steps came in between.
C2_GetSetpointLatest ==
  (ret.op = "get_setpoint" /\ ret.err = "none") => ret.val = last_sp[ret.arg]

\* C2 witness: get_setpoint returned an updated value after further updates
\* and after the receive thread had published a snapshot
C2_Witness ==
  /\ ret.op = "get_setpoint" /\ ret.err = "none" /\ ret.val = MaxOf(UpdValues)
  /\ nupd = MaxUpdates
  /\ \E n \in DOMAIN id : last_scale[n] # 1
  /\ data # <<>>

\* C3: has_variable never fails and answers true exactly for the names of the
\* field list given at construction, in every reachable state.
C3_HasVariable ==
  /\ \A name \in CallNames : HasVariable(name) = (name \in Range(fields))
  /\ ret.op = "has_variable" =>
       ret.err = "none" /\ ret.val = (ret.arg \in Range(fields))

\* C3 witness: has_variable answered true for the first field after updates
\* were made and a thread was started
C3_Witness ==
  /\ ret.op = "has_variable" /\ ret.val = TRUE
  /\ id[ret.arg] = 0
  /\ nupd > 0
  /\ threads # EmptyBag

\* C4: update_setpoint, update_scale, update_bias and get_setpoint with a name
\* that was never registered end in an error, and leave every slot of the
\* three vectors as it was.
C4_UnknownNameFails ==
  [][\A prop \in CallNames \ Range(fields), value \in UpdValues :
       (\/ update_setpoint(prop, value)
        \/ update_scale(prop, value)
        \/ update_bias(prop, value)
        \/ get_setpoint(prop))
       => (ret'.err = "KeyError" /\ vectors' = vectors)]_vars

\* C4 witness: update_setpoint failed on an unregistered name after the
\* vectors had left their defaults
C4_Witness ==
  /\ ret.op = "update_setpoint" /\ ret.err = "KeyError"
  /\ ret.arg \notin Range(fields)
  /\ nupd > 0

\* no thread has come back from an initial recvfrom, or passed line 128 after
\* one had
NothingReceived == \A pc \in BagToSet(threads) : pc \in {"l128", "l129"}

\* C5: connected is false as long as no inbound datagram has been received,
\* is true as soon as a thread has its first recvfrom behind it, and once true
\* stays true: through malformed datagrams, ended threads and further
\* start_receive_state calls.
C5_ConnectedOneWay ==
  /\ [](NothingReceived <=> ~connected)
  /\ [][connected => connected']_vars

\* C5 witness: the endpoint is connected, one thread was ended by a malformed
\* datagram, and a thread started later is in its loop
C5_Witness ==
  /\ connected
  /\ At("ValueError")
  /\ At("l132") \/ At("l133")

\* C6: however often start_receive_state is called, at most one receive loop
\* is active on the endpoint.
C6_AtMostOneLoop == ActiveLoops <= 1

\* every snapshot self.data can hold
Snapshots ==
  {<<>>} \cup {Decoded(pkt) : pkt \in {q \in Packets : LoopOutcome(q) = "publish"}}

\* what get_state(idx) returns when self.data is s throughout the call
StateAt(s, idx) == [k \in DOMAIN idx |-> PyIndex(s, idx[k])]

\* C7: the values one get_state call returns all come from one single
\* snapshot, also when receive threads publish during the call.
C7_OneSnapshot ==
  (ret.op = "get_state" /\ ret.err = "none") =>
    \E s \in Snapshots :
      /\ \A k \in DOMAIN ret.arg : InRange(s, ret.arg[k])
      /\ ret.val = StateAt(s, ret.arg)

\* C8: a malformed datagram (one with a non-numeric token) does not end the
\* receive loop that reads it: the thread is still active after handling it.
C8_MalformedKeepsLoop ==
  [][\A pkt \in Packets :
       (LoopOutcome(pkt) = "ValueError" /\ recv_streaming(pkt))
       => ActiveLoops' = ActiveLoops]_vars

\* C9: when a receive loop reads a malformed datagram, the snapshot after
\* handling it is the snapshot before it.
C9_MalformedKeepsSnapshot ==
  [][\A pkt \in Packets :
       (LoopOutcome(pkt) = "ValueError" /\ recv_streaming(pkt))
       => data' = data]_vars

\* C9 witness: a thread was ended by a malformed datagram and a snapshot
\* published before it is still in place
C9_Witness == At("ValueError") /\ data # <<>>

\* C10 as claimed: handling the initial datagram of a thread started on a
\* not-yet-connected endpoint publishes the vector decoded from that datagram.
C10_InitialPublished ==
  [][\A pkt \in Packets :
       (LoopOutcome(pkt) = "publish" /\ recv_initial(pkt))
       => data' = Decoded(pkt)]_vars

\* C10 as amended: handling the initial datagram sets connected and leaves the
\* snapshot as it was; the datagram's payload is dropped.
C10_InitialDropped ==
  [][\A pkt \in Packets :
       recv_initial(pkt) => (connected' /\ data' = data)]_vars

\* C10 witness: the initial datagram has been handled, the endpoint is
\* connected and the snapshot is still empty
C10_Witness == connected /\ data = <<>> /\ At("l132") /\ ~At("l129")

\* how many threads are at position pc
Count(pc) == IF At(pc) THEN CopiesIn(pc, threads) ELSE 0

\* the datagrams with an empty payload: nothing at all, or only the
\* terminating newline
EmptyPayloads == {pkt \in Packets : Strip(pkt) = <<>>}

\* C11: a datagram with an empty payload, with or without its terminating
\* newline, makes the loop that reads it return from receive_state without an
\* error and leaves the snapshot as it was.
C11_EmptyPayloadEndsLoop ==
  [][\A pkt \in EmptyPayloads :
       recv_streaming(pkt)
       => (/\ Count("done")' = Count("done") + 1
           /\ Count("ValueError")' = Count("ValueError")
           /\ data' = data)]_vars

\* the datagrams that decode
Decodable == {pkt \in Packets : LoopOutcome(pkt) = "publish"}

\* the indices the running get_state call has read so far
ReadSoFar == SubSeq(fg.idx, 1, Len(fg.acc))

\* the values read so far are those of the present snapshot
ReadFromPresent ==
  /\ \A k \in DOMAIN ReadSoFar : InRange(data, ReadSoFar[k])
  /\ fg.acc = StateAt(data, ReadSoFar)

\* C12: the snapshot is at every moment the vector of the datagram decoded
\* last: a loop that decodes a datagram stores its vector, and no other step
\* changes the snapshot.  A read of get_state whose index lies inside the
\* snapshot adds the value at that position of it, so a call that no receive
\* step interrupts returns the values of the newest decoded datagram,
\* position by position, and none of an older one.
C12_ReadsNewestSnapshot ==
  [][/\ \A pkt \in Decodable : recv_streaming(pkt) => data' = Decoded(pkt)
     /\ data' # data => \E pkt \in Decodable : recv_streaming(pkt)
     /\ (/\ get_state_read
         /\ InRange(data, fg.idx[Len(fg.acc) + 1])
         /\ ReadFromPresent)
        => ReadFromPresent' /\ Len(fg'.acc) = Len(fg.acc) + 1]_vars

\* C12 witness: get_state([1]) returned the second value of the two-value
\* snapshot in place, on an endpoint where one of two threads was ended by a
\* malformed datagram
C12_Witness ==
  /\ ret.op = "get_state" /\ ret.err = "none"
  /\ ret.arg = <<1>>
  /\ data = Decoded(<<"3", "\t", "\t", "4">>)
  /\ ret.val = <<4>>
  /\ At("ValueError")

\* the index the running get_state call reads next
NextIndex == fg.idx[Len(fg.acc) + 1]

\* C13: a get_state read whose index is not less than the length of the
\* snapshot ends the call with IndexError and without any value, also when
\* earlier reads of the call went well; and while no snapshot was ever
\* published no read goes well, so that a get_state call with a non-empty
\* index list that has read or returned a value implies a published snapshot.
C13_OutOfRangeFails ==
  /\ [][(get_state_read /\ (NextIndex >= Len(data) \/ data = <<>>))
        => (/\ fg' = Idle
            /\ ret'.op = "get_state" /\ ret'.arg = fg.idx
            /\ ret'.err = "IndexError" /\ ret'.val = "none")]_vars
  /\ [](data = <<>> =>
          /\ fg.acc = <<>>
          /\ ~(ret.op = "get_state" /\ ret.arg # <<>> /\ ret.err = "none"))

\* C13 witness: get_state([0, 1]) failed on its second index against a
\* one-value snapshot
C13_Witness ==
  /\ ret.op = "get_state" /\ ret.err = "IndexError" /\ ret.val = "none"
  /\ ret.arg = <<0, 1>>
  /\ data = Decoded(<<"7", "\n">>)
  /\ fg = Idle

\* C14: send_cmd on an endpoint of N >= 0 fields never fails, and the one
\* datagram it sends carries N fields, each followed by its separator or by
\* the closing newline.
C14_SendCmdAlwaysSends ==
  ret.op = "send_cmd" =>
    /\ ret.err = "none"
    /\ Len(ret.val) = 2 * Len(fields)
    /\ \A i \in 0..(Len(fields) - 1) : WireValues(WireField(ret.val, i)) # {}

\* C15 as claimed: while the running flag stays cleared no thread begins a
\* receive, neither the initial wait nor a receive of the loop.
C15_NoReceiveAfterClear ==
  [][(~update /\ ~update')
     => Count("l129")' + Count("l133")' <= Count("l129") + Count("l133")]_vars

\* C15 as amended: the flag is tested at the top of every cycle of the loop,
\* so while it stays cleared no thread begins a receive of the loop and every
\* thread that comes to the test returns; only a thread started before the
\* clearing that has not yet tested self.connected still begins the initial
\* wait.
C15_NoLoopReceiveAfterClear ==
  [][(~update /\ ~update')
     => (/\ Count("l133")' <= Count("l133")
         /\ while_update => Count("done")' = Count("done") + 1
         /\ Count("l129")' > Count("l129") => (check_connected /\ ~connected)
        )]_vars

\* C15 witness: with the flag cleared, one thread has returned and another,
\* started before the clearing, has handled its initial datagram and is at
\* the test of the flag
C15_Witness == ~update /\ At("done") /\ At("l132") /\ connected

\* C16: whatever ordered list of names the endpoint was built from, the
\* three vectors have one slot per list entry and the registry maps its names
\* one-to-one onto the slot indices 0..N-1, so that every slot is reached
\* through exactly one name.
C16_IndicesContiguous ==
  /\ Len(sp) = Len(fields) /\ Len(scale) = Len(fields) /\ Len(bias) = Len(fields)
  /\ {id[n] : n \in DOMAIN id} = 0..(Len(fields) - 1)
  /\ \A n, m \in DOMAIN id : id[n] = id[m] => n = m

\* C17: in the line send_cmd sends for N >= 1 fields, every field, the last
\* one included, is a value in the fixed six-decimal format; consecutive
\* fields are separated by ", " and the line ends with its only newline.
C17_UniformFormat ==
  (ret.op = "send_cmd" /\ ret.err = "none") =>
    LET n == Len(ret.val) \div 2
    IN  /\ \A i \in 0..(n - 1) :
             \E v \in WireRange : WireField(ret.val, i) = FmtF(v)
        /\ \A i \in 1..(n - 1) : ret.val[2 * i] = ", "
        /\ ret.val[2 * n] = "\n"
        /\ \A k \in 1..(2 * n - 1) : ret.val[k] # "\n"

\* a step of a call made by the foreground caller
ForegroundStep ==
  \/ \E prop \in CallNames : has_variable(prop) \/ get_setpoint(prop)
  \/ \E prop \in CallNames, value \in UpdValues :
       update_setpoint(prop, value) \/ update_scale(prop, value) \/ update_bias(prop, value)
  \/ send_cmd
  \/ \E idx \in IdxLists : get_state_call(idx)
  \/ get_state_read
  \/ get_state_return
  \/ start_receive_state

\* a step in which a receive thread comes back from recvfrom
ReceiveStep == \E pkt \in Packets : recv_initial(pkt) \/ recv_streaming(pkt)

\* C18: no step of a foreground call (has_variable, the three updates,
\* get_setpoint, get_state, send_cmd, start_receive_state) changes the
\* snapshot or the connected flag; a step that changes either is a receive
\* thread coming back from recvfrom.
C18_ReceiverOwnsSnapshot ==
  [][/\ ForegroundStep => (data' = data /\ connected' = connected)
     /\ (data' # data \/ connected' # connected) => ReceiveStep]_vars

\* C18 witness: on a connected endpoint that holds a snapshot, a parameter
\* was updated and get_state has returned values
C18_Witness ==
  /\ connected /\ data # <<>>
  /\ nupd > 0
  /\ ret.op = "get_state" /\ ret.err = "none"
  /\ At("l133")

\* vector new is vector old with value v in slot i (0-based) and every other
\* slot as it was
OneSlotSet(old, new, i, v) ==
  /\ Len(new) = Len(old)
  /\ new[i + 1] = v
  /\ \A j \in DOMAIN old : j # i + 1 => new[j] = old[j]

\* C19: the setpoint, scale and bias vectors have N slots in every state, N
\* being the number of chunks the endpoint was built from; an update_X(n, v)
\* that succeeds puts v into slot id[n] of vector X and changes no other slot
\* of X and no slot of the two other vectors.
C19_UpdateOneSlot ==
  /\ [](Len(sp) = Len(fields) /\ Len(scale) = Len(fields) /\ Len(bias) = Len(fields))
  /\ [][\A prop \in DOMAIN id, value \in UpdValues :
          /\ update_setpoint(prop, value) =>
               OneSlotSet(sp, sp', id[prop], value) /\ scale' = scale /\ bias' = bias
          /\ update_scale(prop, value) =>
               OneSlotSet(scale, scale', id[prop], value) /\ sp' = sp /\ bias' = bias
          /\ update_bias(prop, value) =>
               OneSlotSet(bias, bias', id[prop], value) /\ sp' = sp /\ scale' = scale]_vars

\* C19 witness: on a two-field endpoint whose setpoint and scale vectors had
\* left their defaults, update_bias changed one bias slot and the other bias
\* slot is still at its default
C19_Witness ==
  /\ ret.op = "update_bias" /\ ret.err = "none"
  /\ Len(bias) = 2 /\ Cardinality(DOMAIN id) = 2
  /\ bias[id[ret.arg] + 1] # 0
  /\ \E j \in DOMAIN bias : bias[j] = 0
  /\ \E j \in DOMAIN sp : sp[j] # 0
  /\ \E j \in DOMAIN scale : scale[j] # 1

\* C20: no snapshot is published while the endpoint is disconnected: in every
\* state, with any number of threads started and any interleaving of them, a
\* snapshot other than the initial empty one implies that connected is true.
C20_SnapshotImpliesConnected == data # <<>> => connected

\* C20 witness: a snapshot is in place on a connected endpoint where a second
\* thread, started after the first had connected, is blocked in the loop's
\* recvfrom next to the first
C20_Witness ==
  /\ data # <<>> /\ connected
  /\ Count("l133") = MaxThreads

====
